---- MODULE Spec2Model ----
(***************************************************************************)
(* Model of the MarkdownEditor component                                   *)
(* (src/components/markdown-editor.tsx).                                   *)
(*                                                                         *)
(* The component holds three pieces of React state (markdown,              *)
(* isLibraryLoaded, isExporting), a ref to the preview node, a poll timer  *)
(* started by the mount effect and two asynchronous handlers (handleCopy,  *)
(* handleExport).  The browser is single threaded: every action below is   *)
(* one task of the event loop (an event handler, a timer callback, the     *)
(* continuation of a settled promise, or a React commit).                  *)
(*                                                                         *)
(* React state and what is on screen are kept apart: `view` is the last    *)
(* committed render.  The handlers close over the values of the last       *)
(* render and the button's `disabled` attribute is the one of the last     *)
(* render, so a state update is visible to them only after a commit.       *)
(***************************************************************************)
EXTENDS Integers, Sequences, FiniteSets

\* ------------------------------------------------------------------ bounds

\* Number of Copy clicks followed.
MaxCopies == 1

\* Number of Export-PDF invocations followed.
MaxExports == 2

\* --------------------------------------------------------------- documents

\* Characters of the modelled documents: the ATX heading marker, a blank and
\* a letter.  A document is one line of them.
Chars == {"#", " ", "x"}

\* The sample document the editor starts with, cut to its first line's
\* shape: "# Hello, Markdown!" is a heading marker, a blank and text.
defaultMarkdown == <<"#", " ", "x">>

\* The texts typed into the textarea: the sample, the empty text, a lone
\* heading marker, and a word after a blank.
Docs == {defaultMarkdown, <<>>, <<"#">>, <<" ", "x">>}

RECURSIVE LStrip(_)
LStrip(s) ==
    IF s # <<>> /\ Head(s) = " " THEN LStrip(Tail(s)) ELSE s

RECURSIVE RStrip(_)
RStrip(s) ==
    IF s # <<>> /\ s[Len(s)] = " " THEN RStrip(SubSeq(s, 1, Len(s) - 1)) ELSE s

Strip(s) == RStrip(LStrip(s))

RECURSIVE LeadingHashes(_)
LeadingHashes(s) ==
    IF s # <<>> /\ Head(s) = "#" THEN 1 + LeadingHashes(Tail(s)) ELSE 0

RECURSIVE DropTrailingHashes(_)
DropTrailingHashes(s) ==
    IF s # <<>> /\ s[Len(s)] = "#"
    THEN DropTrailingHashes(SubSeq(s, 1, Len(s) - 1))
    ELSE s

\* The text of an ATX heading: the optional closing run of #, which must
\* follow a blank (or be the whole content), is not part of it.
HeadingText(rest) ==
    LET t == Strip(rest)
        u == DropTrailingHashes(t)
    IN  IF u = <<>> \/ u[Len(u)] = " " THEN Strip(u) ELSE t

\* <ReactMarkdown>{markdown}</ReactMarkdown>: the markup of a one-line
\* document, a sequence of block elements.  Blank input renders nothing; a
\* run of # followed by a blank or the end of the line is a heading; any
\* other line is a paragraph of its trimmed text.
render(s) ==
    LET t == Strip(s)
        n == LeadingHashes(t)
    IN  IF t = <<>> THEN <<>>
        ELSE IF n >= 1 /\ n <= 6 /\ (Len(t) = n \/ t[n + 1] = " ")
        THEN << [tag |-> "h", level |-> n, style |-> "",
                 text |-> HeadingText(SubSeq(t, n + 1, Len(t)))] >>
        ELSE << [tag |-> "p", level |-> 0, style |-> "", text |-> t] >>

\* element.innerText: the text of the blocks, one after the other.
RECURSIVE InnerText(_)
InnerText(markup) ==
    IF markup = <<>> THEN <<>>
    ELSE Head(markup).text \o InnerText(Tail(markup))

\* The clone handleCopy styles before copying: pre and blockquote elements
\* get inline styles, every other element is copied as it is.
StyleForCopy(markup) ==
    [i \in 1..Len(markup) |->
        IF markup[i].tag \in {"pre", "blockquote"}
        THEN [markup[i] EXCEPT !.style = "inline"]
        ELSE markup[i]]

\* content.innerHTML of the styled clone.
InnerHTML(markup) == StyleForCopy(markup)

\* ------------------------------------------------------------------- state

VARIABLES
    lifecycle,        \* "mounted" | "unmounted"
    markdown,         \* useState(defaultMarkdown)
    isLibraryLoaded,  \* useState(false)
    isExporting,      \* useState(false)
    view,             \* the last committed render
    html2pdf,         \* window.html2pdf is defined
    scriptPending,    \* the <Script> tag has not loaded yet
    pollTimers,       \* ids of the pending setTimeout(checkLibraryLoaded)
    pollSets,         \* setIsLibraryLoaded(true) calls made by the poll
    onLoadSets,       \* setIsLibraryLoaded(true) calls made by onLoad
    copies,           \* the handleCopy invocations, in order
    exports,          \* the handleExport invocations, in order
    clipboard         \* what the system clipboard holds

vars == <<lifecycle, markdown, isLibraryLoaded, isExporting, view, html2pdf,
          scriptPending, pollTimers, pollSets, onLoadSets, copies, exports,
          clipboard>>

Null == "null"

\* previewRef.current: the preview node while the component is mounted,
\* null once React has detached the ref.
previewRef == IF lifecycle = "mounted" THEN "previewRoot" ELSE Null

\* A state setter called on an unmounted component changes nothing.
SetState(old, new) == IF lifecycle = "mounted" THEN new ELSE old

\* ------------------------------------------------------------------ timers

\* setTimeout returns a positive id not in use.
NewTimerId(timers) ==
    CHOOSE id \in 1..(Cardinality(timers) + 1) : id \notin timers

\* clearTimeout(handle) removes the timer with that id, if there is one.
ClearTimeout(timers, handle) == timers \ {handle}

\* `checkLibraryLoaded as unknown as number`: the cleanup passes the poll
\* function itself; clearTimeout converts it to a number, which is NaN and
\* is taken as 0.  No timer has id 0.
checkLibraryLoadedAsNumber == 0

\* The body of checkLibraryLoaded: the timers after it ran.
CheckLibraryTimers(timers) ==
    IF html2pdf THEN timers ELSE timers \cup {NewTimerId(timers)}

\* ----------------------------------------------------------- initial state

\* A clipboard this page has not written to.
EmptyClipboard == [kind |-> "none", html |-> <<>>, text |-> <<>>]

\* The state after the first render and the mount effect.  The script is
\* loaded after the page is interactive, so the effect's first call of
\* checkLibraryLoaded finds no window.html2pdf and starts the poll timer.
Init ==
    /\ lifecycle = "mounted"
    /\ markdown = defaultMarkdown
    /\ isExporting = FALSE
    /\ view = [preview |-> render(defaultMarkdown),
               isLibraryLoaded |-> FALSE, isExporting |-> FALSE]
    /\ html2pdf = FALSE
    /\ scriptPending = TRUE
    /\ isLibraryLoaded = FALSE
    /\ pollSets = 0
    /\ pollTimers = CheckLibraryTimers({})
    /\ onLoadSets = 0
    /\ copies = <<>>
    /\ exports = <<>>
    /\ clipboard = EmptyClipboard

\* --------------------------------------------------------------- rendering

\* The render React commits for the current state.
Rendered ==
    [preview |-> render(markdown),
     isLibraryLoaded |-> isLibraryLoaded, isExporting |-> isExporting]

\* React commits a re-render scheduled by a state setter called from a
\* click handler, a timer, a script's load event or a promise continuation.
\* It runs after the task that called the setter, not inside it.
Render ==
    /\ lifecycle = "mounted"
    /\ view # Rendered
    /\ view' = Rendered
    /\ UNCHANGED <<lifecycle, markdown, isLibraryLoaded, isExporting, html2pdf,
                   scriptPending, pollTimers, pollSets, onLoadSets, copies,
                   exports, clipboard>>

\* Variant of CommitPreview: the preview is not rendered again.
CommitPreviewStale(v, s) == v

\* The preview after the textarea's change event: the event of a controlled
\* input is flushed before the event returns, so ReactMarkdown has rendered
\* the new text when the handler's task ends.
CommitPreview(v, s) == [v EXCEPT !.preview = render(s)]

\* onChange={(e) => setMarkdown(e.target.value)}: the whole new text.
Edit(s) ==
    /\ lifecycle = "mounted"
    /\ s # markdown
    /\ markdown' = s
    /\ view' = CommitPreview(view, s)
    /\ UNCHANGED <<lifecycle, isLibraryLoaded, isExporting, html2pdf,
                   scriptPending, pollTimers, pollSets, onLoadSets, copies,
                   exports, clipboard>>

\* ---------------------------------------------------------- load detection

\* The script from the CDN has run (it defines window.html2pdf) and its load
\* event calls onLoad={() => setIsLibraryLoaded(true)}.
ScriptLoaded ==
    /\ scriptPending
    /\ scriptPending' = FALSE
    /\ html2pdf' = TRUE
    /\ isLibraryLoaded' = SetState(isLibraryLoaded, TRUE)
    /\ onLoadSets' = onLoadSets + 1
    /\ UNCHANGED <<lifecycle, markdown, isExporting, view, pollTimers,
                   pollSets, copies, exports, clipboard>>

\* Variant of PollFound: the poll goes on after it found the library.
PollFoundReschedules(timers) == timers \cup {NewTimerId(timers)}

\* The timers left by a run of checkLibraryLoaded that found the library:
\* it sets no new timer.
PollFound(timers) == timers

\* A pending setTimeout(checkLibraryLoaded, 500) fires.  Nothing in the
\* callback looks at whether the component is still mounted.
PollTick ==
    \E id \in pollTimers :
        LET rest == pollTimers \ {id}
        IN  /\ IF html2pdf
               THEN /\ isLibraryLoaded' = SetState(isLibraryLoaded, TRUE)
                    /\ pollSets' = pollSets + 1
                    /\ pollTimers' = PollFound(rest)
               ELSE /\ pollTimers' = CheckLibraryTimers(rest)
                    /\ UNCHANGED <<isLibraryLoaded, pollSets>>
            /\ UNCHANGED <<lifecycle, markdown, isExporting, view, html2pdf,
                           scriptPending, onLoadSets, copies, exports,
                           clipboard>>

\* The component is removed: React detaches previewRef and runs the
\* effect's cleanup, clearTimeout(checkLibraryLoaded as unknown as number).
Unmount ==
    /\ lifecycle = "mounted"
    /\ lifecycle' = "unmounted"
    /\ pollTimers' = ClearTimeout(pollTimers, checkLibraryLoadedAsNumber)
    /\ UNCHANGED <<markdown, isLibraryLoaded, isExporting, view, html2pdf,
                   scriptPending, pollSets, onLoadSets, copies, exports,
                   clipboard>>

\* -------------------------------------------------------------------- copy

\* The toasts of handleCopy.
RichToast == "Copied to clipboard: rich text"
PlainToast == "Copied to clipboard: plain text"
CopyFailedToast == "Failed to copy"

\* No blobs: the locals of an invocation that no longer uses them.
NoPayload == [kind |-> "none", html |-> <<>>, text |-> <<>>]

\* handleCopy up to `await navigator.clipboard.write(...)`: it returns at
\* once without a preview node, else it builds the text/html and text/plain
\* blobs from the preview and starts the rich write.
HandleCopy ==
    IF previewRef = Null
    THEN UNCHANGED copies
    ELSE copies' = Append(copies,
            [pc |-> "rich",
             payload |-> [kind |-> "rich",
                          html |-> InnerHTML(view.preview),
                          text |-> InnerText(view.preview)],
             rich |-> "pending",
             fallback |-> "none",
             fallbackText |-> <<>>,
             toasts |-> <<>>])

\* A click on the Copy button.
ClickCopy ==
    /\ lifecycle = "mounted"
    /\ Len(copies) < MaxCopies
    /\ HandleCopy
    /\ UNCHANGED <<lifecycle, markdown, isLibraryLoaded, isExporting, view,
                   html2pdf, scriptPending, pollTimers, pollSets, onLoadSets,
                   exports, clipboard>>

\* The toasts of the outer catch block before it tries the fallback: it
\* only logs the error.
RichRejectedToasts == <<>>

\* The rich write settles.  Resolved: the clipboard holds both blobs and the
\* rich toast is shown.  Rejected: the catch block reads
\* previewRef.current.innerText and starts navigator.clipboard.writeText;
\* reading innerText of a null ref throws, which the inner catch turns into
\* the failure toast.
CopyRichSettle(i, ok) ==
    /\ i \in 1..Len(copies)
    /\ copies[i].pc = "rich"
    /\ IF ok
       THEN /\ clipboard' = copies[i].payload
            /\ copies' = [copies EXCEPT ![i].pc = "done",
                                        ![i].rich = "resolved",
                                        ![i].payload = NoPayload,
                                        ![i].toasts = @ \o <<RichToast>>]
       ELSE /\ UNCHANGED clipboard
            /\ IF previewRef = Null
               THEN copies' = [copies EXCEPT
                        ![i].pc = "done",
                        ![i].rich = "rejected",
                        ![i].payload = NoPayload,
                        ![i].toasts = @ \o RichRejectedToasts
                                        \o <<CopyFailedToast>>]
               ELSE copies' = [copies EXCEPT
                        ![i].pc = "fallback",
                        ![i].rich = "rejected",
                        ![i].payload = NoPayload,
                        ![i].fallback = "pending",
                        ![i].fallbackText = InnerText(view.preview),
                        ![i].toasts = @ \o RichRejectedToasts]
    /\ UNCHANGED <<lifecycle, markdown, isLibraryLoaded, isExporting, view,
                   html2pdf, scriptPending, pollTimers, pollSets, onLoadSets,
                   exports>>

\* Variant of FallbackToasts: the inner catch block shows nothing.
FallbackToastsSwallowed(ok) == IF ok THEN <<PlainToast>> ELSE <<>>

\* The toasts after the fallback write settled.
FallbackToasts(ok) == IF ok THEN <<PlainToast>> ELSE <<CopyFailedToast>>

\* The plain-text fallback write settles.
CopyFallbackSettle(i, ok) ==
    /\ i \in 1..Len(copies)
    /\ copies[i].pc = "fallback"
    /\ clipboard' = IF ok
                    THEN [kind |-> "plain", html |-> <<>>,
                          text |-> copies[i].fallbackText]
                    ELSE clipboard
    /\ copies' = [copies EXCEPT
            ![i].pc = "done",
            ![i].fallback = IF ok THEN "resolved" ELSE "rejected",
            ![i].fallbackText = <<>>,
            ![i].toasts = @ \o FallbackToasts(ok)]
    /\ UNCHANGED <<lifecycle, markdown, isLibraryLoaded, isExporting, view,
                   html2pdf, scriptPending, pollTimers, pollSets, onLoadSets,
                   exports>>

\* ------------------------------------------------------------------ export

\* The events of a handleExport invocation, in the order they happen.
NotLoadedToast == "Export failed: PDF library not loaded yet"
GeneratingToast == "Generating PDF"
ExportedToast == "PDF exported"
ErrorToast == "Export failed: error generating your PDF"
SetExportingTrue == "setIsExporting(true)"
SetExportingFalse == "setIsExporting(false)"
LibraryCall == "window.html2pdf(element, opt)"

\* Variant of ExportPrecondition: only the preview node is looked at.
ExportPreconditionNodeOnly == previewRef # Null

\* The guard of handleExport: the preview node, the isLibraryLoaded of the
\* render the handler belongs to, and the global entry point.
ExportPrecondition ==
    previewRef # Null /\ view.isLibraryLoaded /\ html2pdf

\* What handleExport does before it waits for the library.
ExportStartEvents == <<SetExportingTrue, GeneratingToast, LibraryCall>>

\* handleExport up to `await window.html2pdf(element, opt)`.
HandleExport ==
    IF ~ExportPrecondition
    THEN /\ exports' = Append(exports,
                [pc |-> "done", passed |-> FALSE,
                 flagAtCall |-> isLibraryLoaded, entryAtCall |-> html2pdf,
                 element |-> Null, events |-> <<NotLoadedToast>>,
                 outcome |-> "none", downloaded |-> FALSE])
         /\ UNCHANGED isExporting
    ELSE /\ exports' = Append(exports,
                [pc |-> "calling", passed |-> TRUE,
                 flagAtCall |-> isLibraryLoaded, entryAtCall |-> html2pdf,
                 element |-> previewRef, events |-> ExportStartEvents,
                 outcome |-> "none", downloaded |-> FALSE])
         /\ isExporting' = SetState(isExporting, TRUE)

\* disabled={!isLibraryLoaded || isExporting}, as last rendered.
ExportDisabled == ~view.isLibraryLoaded \/ view.isExporting

\* A click on the Export PDF button: a disabled button delivers no click.
ClickExport ==
    /\ lifecycle = "mounted"
    /\ ~ExportDisabled
    /\ Len(exports) < MaxExports
    /\ HandleExport
    /\ UNCHANGED <<lifecycle, markdown, isLibraryLoaded, view, html2pdf,
                   scriptPending, pollTimers, pollSets, onLoadSets, copies,
                   clipboard>>

\* handleExport called whatever the button shows.
InvokeExport ==
    /\ lifecycle = "mounted"
    /\ Len(exports) < MaxExports
    /\ HandleExport
    /\ UNCHANGED <<lifecycle, markdown, isLibraryLoaded, view, html2pdf,
                   scriptPending, pollTimers, pollSets, onLoadSets, copies,
                   clipboard>>

\* Variant of ExportEndEvents: the flag is reset at the end of the try block
\* instead of in a finally block.
ExportEndEventsNoFinally(outcome) ==
    IF outcome = "resolved"
    THEN <<ExportedToast, SetExportingFalse>>
    ELSE <<ErrorToast>>

\* Variant of ExportEndEvents: the two toasts are exchanged.
ExportEndEventsSwapped(outcome) ==
    IF outcome = "resolved"
    THEN <<ErrorToast, SetExportingFalse>>
    ELSE <<ExportedToast, SetExportingFalse>>

\* What handleExport does once the library call has settled: the toast of
\* the try or of the catch block, then the finally block.
ExportEndEvents(outcome) ==
    IF outcome = "resolved"
    THEN <<ExportedToast, SetExportingFalse>>
    ELSE <<ErrorToast, SetExportingFalse>>

\* x is one of the events of s.
InSeq(x, s) == \E k \in 1..Len(s) : s[k] = x

\* The library call of invocation i completes (and downloads the file) or
\* throws.
ExportSettle(i, outcome) ==
    /\ i \in 1..Len(exports)
    /\ exports[i].pc = "calling"
    /\ exports' = [exports EXCEPT
            ![i].pc = "done",
            ![i].outcome = outcome,
            ![i].downloaded = (outcome = "resolved"),
            ![i].events = @ \o ExportEndEvents(outcome)]
    /\ isExporting' = IF InSeq(SetExportingFalse, ExportEndEvents(outcome))
                      THEN SetState(isExporting, FALSE)
                      ELSE isExporting
    /\ UNCHANGED <<lifecycle, markdown, isLibraryLoaded, view, html2pdf,
                   scriptPending, pollTimers, pollSets, onLoadSets, copies,
                   clipboard>>

\* ---------------------------------------------------------- specifications

Outcomes == {"resolved", "rejected"}

Edits == \E s \in Docs : Edit(s)

CopyRichSettles == \E i \in 1..MaxCopies, ok \in BOOLEAN : CopyRichSettle(i, ok)

CopyFallbackSettles ==
    \E i \in 1..MaxCopies, ok \in BOOLEAN : CopyFallbackSettle(i, ok)

ExportSettles ==
    \E i \in 1..MaxExports, outcome \in Outcomes : ExportSettle(i, outcome)

\* The component as the page runs it: Export-PDF is triggered by its button.
Next ==
    \/ Edits
    \/ Render
    \/ ScriptLoaded
    \/ PollTick
    \/ Unmount
    \/ ClickCopy
    \/ CopyRichSettles
    \/ CopyFallbackSettles
    \/ ClickExport
    \/ ExportSettles

Spec == Init /\ [][Next]_vars

\* Every started library call settles.
FairSpec ==
    Spec /\ \A i \in 1..MaxExports :
                WF_vars(\E outcome \in Outcomes : ExportSettle(i, outcome))

\* The handlers as operations: handleExport is called in every state of the
\* mounted component, also where the button is shown disabled.
NextHandler ==
    \/ Edits
    \/ Render
    \/ ScriptLoaded
    \/ PollTick
    \/ Unmount
    \/ ClickCopy
    \/ CopyRichSettles
    \/ CopyFallbackSettles
    \/ InvokeExport
    \/ ExportSettles

SpecHandler == Init /\ [][NextHandler]_vars

\* ------------------------------------------------------------------ claims

\* The library calls that have started and not settled.
InFlight == {i \in 1..Len(exports) : exports[i].pc = "calling"}

\* C1: at most one call of the PDF library is in flight at any time.
C1_AtMostOneInFlight == Cardinality(InFlight) <= 1

\* An invocation of handleExport happens in this step.
ExportInvoked == Len(exports') = Len(exports) + 1

\* C2: an Export-PDF invocation made while the readiness flag is false or
\* the entry point is absent shows the "not loaded" toast and nothing else:
\* no library call, no download, both flags as they were; and its record
\* never changes afterwards.
C2_NotReadyIsNoOp ==
    /\ [][(ExportInvoked /\ (~isLibraryLoaded \/ ~html2pdf)) =>
            /\ exports'[Len(exports')].events = <<NotLoadedToast>>
            /\ exports'[Len(exports')].pc = "done"
            /\ isLibraryLoaded' = isLibraryLoaded
            /\ isExporting' = isExporting]_vars
    /\ [](\A i \in 1..Len(exports) :
            (~exports[i].flagAtCall \/ ~exports[i].entryAtCall) =>
                /\ exports[i].events = <<NotLoadedToast>>
                /\ ~exports[i].downloaded
                /\ i \notin InFlight)

\* C2's case: handleExport has run with the readiness flag false.
C2_Witness ==
    \E i \in 1..Len(exports) :
        ~exports[i].flagAtCall /\ exports[i].pc = "done"

\* Invocation i passed the guard and set isExporting to true.
Started(i) ==
    /\ i <= Len(exports)
    /\ exports[i].passed
    /\ InSeq(SetExportingTrue, exports[i].events)

\* Invocation i has run its finally block.
Finished(i) ==
    /\ i <= Len(exports)
    /\ exports[i].pc = "done"
    /\ exports[i].events[Len(exports[i].events)] = SetExportingFalse

\* C3: eventually, and from then on, every invocation that set isExporting
\* to true has called setIsExporting(false), whether its library call
\* completed or threw; and that call leaves the mounted component's flag
\* false.
C3_ExportingReset ==
    /\ <>[](\A i \in 1..MaxExports : Started(i) => Finished(i))
    /\ [][\A i \in 1..Len(exports) :
            (i \in InFlight /\ exports'[i].pc = "done"
                /\ lifecycle = "mounted") => ~isExporting']_vars

\* C3's case: a library call threw and the invocation has finished.
C3_Witness ==
    \E i \in 1..Len(exports) :
        exports[i].outcome = "rejected" /\ Finished(i) /\ ~isExporting

\* C4: a Copy shows no toast before it ends and exactly one when it has
\* ended, whatever the two clipboard writes did.
C4_OneNotification ==
    \A i \in 1..Len(copies) :
        /\ copies[i].pc = "done" => Len(copies[i].toasts) = 1
        /\ copies[i].pc # "done" => Len(copies[i].toasts) = 0

\* C4's case: a Copy has ended after both writes were rejected.
C4_Witness ==
    \E i \in 1..Len(copies) :
        /\ copies[i].pc = "done"
        /\ copies[i].rich = "rejected"
        /\ copies[i].fallback = "rejected"

\* Copy i ends in this step with a toast that reports success.
CopySucceeds(i) ==
    /\ copies[i].pc # "done"
    /\ copies'[i].pc = "done"
    /\ copies'[i].toasts[Len(copies'[i].toasts)] \in {RichToast, PlainToast}

\* C5: when a Copy succeeds, what it wrote to the clipboard is not empty.
C5_CopiedNonEmpty ==
    [][\A i \in 1..Len(copies) :
        CopySucceeds(i) => (clipboard'.html # <<>> \/ clipboard'.text # <<>>)
      ]_vars

\* C6: once the component is unmounted no poll timer is pending.
C6_NoTimerAfterUnmount == lifecycle = "unmounted" => pollTimers = {}

\* C7 as stated: the two paths together call setIsLibraryLoaded(true) once.
C7_SetExactlyOnce == pollSets + onLoadSets <= 1

\* C7 as amended: each path sets the flag to true at most once, and the flag
\* never goes back to false.
C7_SetOncePerPath ==
    /\ [](pollSets <= 1 /\ onLoadSets <= 1)
    /\ [][isLibraryLoaded => isLibraryLoaded']_vars

\* C7's case: both paths have set the flag.
C7_Witness == pollSets = 1 /\ onLoadSets = 1 /\ isLibraryLoaded

\* C8: a rejected rich write is followed by the fallback write; the plain
\* toast is the one shown when the fallback succeeded, the failure toast is
\* shown only when the fallback write failed, and the rich toast only when
\* the rich write succeeded.
C8_FallbackAfterReject ==
    \A i \in 1..Len(copies) :
        /\ copies[i].rich = "rejected" => copies[i].fallback # "none"
        /\ copies[i].fallback = "resolved" => copies[i].toasts = <<PlainToast>>
        /\ InSeq(CopyFailedToast, copies[i].toasts) =>
                copies[i].fallback = "rejected"
        /\ InSeq(RichToast, copies[i].toasts) => copies[i].rich = "resolved"

\* C9: the preview always shows the rendering of the current document, and
\* a step that changes the document changes nothing a Copy, an Export-PDF or
\* the load detection writes.
C9_PreviewFresh ==
    /\ [](view.preview = render(markdown))
    /\ [][markdown' # markdown =>
            UNCHANGED <<lifecycle, isLibraryLoaded, isExporting, html2pdf,
                        scriptPending, pollTimers, pollSets, onLoadSets,
                        copies, exports, clipboard>>]_vars

\* C9's case: the document was edited and a Copy and an Export-PDF ran.
C9_Witness ==
    /\ markdown = <<" ", "x">>
    /\ \E i \in 1..Len(copies) : copies[i].pc = "done"
    /\ \E i \in 1..Len(exports) : exports[i].pc = "done"

\* C10: an invocation that passed the guard sets isExporting, shows the
\* "generating" toast and calls the library once on the preview node; when
\* the call has settled it shows the "exported" toast if the call completed
\* and the "error" toast if it threw, and then resets isExporting.
C10_ExportOrder ==
    \A i \in 1..Len(exports) :
        exports[i].passed =>
            /\ exports[i].element = "previewRoot"
            /\ exports[i].pc = "calling" =>
                /\ exports[i].outcome = "none"
                /\ exports[i].events =
                    <<SetExportingTrue, GeneratingToast, LibraryCall>>
            /\ (exports[i].pc = "done" /\ exports[i].outcome = "resolved") =>
                exports[i].events =
                    <<SetExportingTrue, GeneratingToast, LibraryCall,
                      ExportedToast, SetExportingFalse>>
            /\ (exports[i].pc = "done" /\ exports[i].outcome = "rejected") =>
                exports[i].events =
                    <<SetExportingTrue, GeneratingToast, LibraryCall,
                      ErrorToast, SetExportingFalse>>
            /\ exports[i].pc = "done" => exports[i].outcome \in Outcomes

\* C10's case: one invocation ended after the library threw, another after
\* it completed.
C10_Witness ==
    /\ \E i \in 1..Len(exports) :
        exports[i].pc = "done" /\ exports[i].outcome = "rejected"
    /\ \E i \in 1..Len(exports) :
        exports[i].pc = "done" /\ exports[i].outcome = "resolved"

====
